---- MODULE Spec2Model ----
(***************************************************************************)
(* Bookmark manager server: the SQLite schema of database.ts and the       *)
(* request handlers of routes/bookmarkRoutes.ts and routes/tagRoutes.ts.   *)
(*                                                                         *)
(* Text values are sequences of one-character strings (<<"A","b">> is      *)
(* "Ab", <<>> is the empty string).  An optional JSON field or query       *)
(* parameter is a sequence of length 0 (undefined) or 1 (the value).       *)
(* request is the request being answered (req.params.id, req.body or       *)
(* req.query), response the status and data sent for it.                   *)
(* better-sqlite3 is synchronous and no handler awaits, so a handler runs  *)
(* to completion as one step; there is no BEGIN/COMMIT in the handlers, so *)
(* every statement autocommits and a handler that throws keeps the effect  *)
(* of the statements it already ran.                                       *)
(* server holds the requests the process has accepted and not yet handed   *)
(* to their handler (queue) and the handlers that have started and not     *)
(* yet answered (running), for the runs in which requests arrive together. *)
(* client is the state of the React hook or component under study (none in *)
(* the runs of the server alone).                                          *)
(***************************************************************************)
EXTENDS Integers, Sequences, FiniteSets, TLC

VARIABLES bookmarks, tags, bookmark_tags, bookmark_seq, tag_seq, now,
          request, response, ops, server, client

vars == <<bookmarks, tags, bookmark_tags, bookmark_seq, tag_seq, now,
          request, response, ops, server, client>>

\* the three relations, and the storage with its AUTOINCREMENT counters
db == <<bookmarks, tags, bookmark_tags>>
store == <<bookmarks, tags, bookmark_tags, bookmark_seq, tag_seq>>

----------------------------------------------------------------------------
(* Bounds *)

MaxBookmarks == 2
MaxTags == 2
MaxTime == 1
MaxOps == 4

----------------------------------------------------------------------------
(* JavaScript and SQLite primitives *)

Absent == <<>>
Some(v) == <<v>>
IsPresent(o) == Len(o) = 1
Value(o) == o[1]

\* a check for undefined alone, which lets the empty string through
Truthy_DefinedOnly(o) == IsPresent(o)

\* JS truthiness of an optional string: undefined and "" are falsy
Truthy(o) == IsPresent(o) /\ Value(o) # <<>>

\* a || b in place of a ?? b: the empty string falls through as well
Coalesce_Or(o, dflt) == IF IsPresent(o) /\ Value(o) # <<>> THEN Value(o) ELSE dflt

\* a ?? b on an optional value
Coalesce(o, dflt) == IF IsPresent(o) THEN Value(o) ELSE dflt

DigitChars == {"0", "1", "2", "3", "4", "5", "6", "7", "8", "9"}

DigitVal(c) ==
    CASE c = "0" -> 0 [] c = "1" -> 1 [] c = "2" -> 2 [] c = "3" -> 3
      [] c = "4" -> 4 [] c = "5" -> 5 [] c = "6" -> 6 [] c = "7" -> 7
      [] c = "8" -> 8 [] c = "9" -> 9

IsDigits(s) == Len(s) > 0 /\ \A i \in 1..Len(s) : s[i] \in DigitChars

RECURSIVE ToInt(_)
ToInt(s) ==
    IF s = <<>> THEN 0
    ELSE 10 * ToInt(SubSeq(s, 1, Len(s) - 1)) + DigitVal(s[Len(s)])

\* Number(str) of JavaScript on decimal literals: NaN, an integer, or a
\* number with a fractional part (val is then its integer part)
Number(s) ==
    IF IsDigits(s) THEN [nan |-> FALSE, int |-> TRUE, val |-> ToInt(s)]
    ELSE IF \E k \in 2..(Len(s) - 1) :
                /\ s[k] = "."
                /\ IsDigits(SubSeq(s, 1, k - 1))
                /\ IsDigits(SubSeq(s, k + 1, Len(s)))
         THEN LET k == CHOOSE k \in 2..(Len(s) - 1) : s[k] = "."
                  fr == SubSeq(s, k + 1, Len(s))
              IN  [nan |-> FALSE,
                   int |-> \A i \in 1..Len(fr) : fr[i] = "0",
                   val |-> ToInt(SubSeq(s, 1, k - 1))]
         ELSE [nan |-> TRUE, int |-> FALSE, val |-> 0]

isNaN(n) == n.nan

\* SELECT * FROM <table> WHERE id = ?  finds a row only for an integral number
HasRow(table, n) == ~n.nan /\ n.int /\ n.val \in DOMAIN table

\* ASCII case folding used by LIKE
Lower(c) ==
    CASE c = "A" -> "a" [] c = "B" -> "b" [] c = "G" -> "g" [] OTHER -> c

\* x LIKE pattern of SQLite: % is any run of characters, _ is any one
\* character, letters compare case-insensitively, no escape character
RECURSIVE Like(_, _)
Like(s, p) ==
    IF p = <<>> THEN s = <<>>
    ELSE IF Head(p) = "%"
         THEN Like(s, Tail(p)) \/ (s # <<>> /\ Like(Tail(s), p))
    ELSE IF s = <<>> THEN FALSE
    ELSE IF Head(p) = "_" THEN Like(Tail(s), Tail(p))
    ELSE Lower(Head(p)) = Lower(Head(s)) /\ Like(Tail(s), Tail(p))

\* the set {1..n} of a sequence's elements
Range(s) == {s[i] : i \in 1..Len(s)}

\* the elements of a finite set of integers in ascending order
RECURSIVE SortAsc(_)
SortAsc(S) ==
    IF S = {} THEN <<>>
    ELSE LET m == CHOOSE x \in S : \A y \in S : x <= y
         IN  <<m>> \o SortAsc(S \ {m})

DefaultColor == <<"#", "6", "3", "6", "6", "f", "1">>

----------------------------------------------------------------------------
(* Schema (database.ts) *)

\* datetime('now'): the clock reading, to the second
datetime_now == now

\* INTEGER PRIMARY KEY alone: one more than the largest id now stored
AutoIncrement_MaxRowid(table, seq) ==
    IF DOMAIN table = {} THEN 1
    ELSE (CHOOSE x \in DOMAIN table : \A y \in DOMAIN table : y <= x) + 1

\* id INTEGER PRIMARY KEY AUTOINCREMENT: one more than the largest id the
\* table ever held, which sqlite_sequence keeps
AutoIncrement(table, seq) == seq + 1

\* INSERT INTO bookmarks (title, url, description, favicon): AUTOINCREMENT
\* gives the id, created_at and updated_at take their DEFAULT
InsertBookmarkRow(table, id, title, url, description, favicon) ==
    [i \in DOMAIN table \cup {id} |->
        IF i = id
        THEN [id |-> id, title |-> title, url |-> url,
              description |-> description, favicon |-> favicon,
              created_at |-> datetime_now, updated_at |-> datetime_now]
        ELSE table[i]]

\* the UPDATE without its WHERE clause: every row takes the new values
UpdateBookmarkRow_NoWhere(table, id, title, url, description, favicon) ==
    [i \in DOMAIN table |->
        [table[i] EXCEPT !.title = title, !.url = url,
                         !.description = description, !.favicon = favicon,
                         !.updated_at = datetime_now]]

\* the UPDATE also stamping created_at
UpdateBookmarkRow_StampsCreated(table, id, title, url, description, favicon) ==
    [table EXCEPT ![id] =
        [@ EXCEPT !.title = title, !.url = url, !.description = description,
                  !.favicon = favicon, !.created_at = datetime_now,
                  !.updated_at = datetime_now]]

\* UPDATE bookmarks SET title, url, description, favicon,
\* updated_at = datetime('now') WHERE id = ?
UpdateBookmarkRow(table, id, title, url, description, favicon) ==
    [table EXCEPT ![id] =
        [@ EXCEPT !.title = title, !.url = url, !.description = description,
                  !.favicon = favicon, !.updated_at = datetime_now]]

\* DELETE FROM <table> WHERE id = ?
DeleteRow(table, id) == [i \in DOMAIN table \ {id} |-> table[i]]

\* INSERT INTO tags (name, color)
InsertTagRow(table, id, name, color) ==
    [i \in DOMAIN table \cup {id} |->
        IF i = id THEN [id |-> id, name |-> name, color |-> color]
        ELSE table[i]]

\* a tags table whose name column is not declared UNIQUE
UniqueNameOk_NoConstraint(table, name) == TRUE

\* name TEXT NOT NULL UNIQUE
UniqueNameOk(table, name) == \A t \in DOMAIN table : table[t].name # name

\* FOREIGN KEY (...) REFERENCES ... with foreign_keys = ON: the statement
\* fails unless both parents exist
ForeignKeyOk(bTable, tTable, bookmark_id, tag_id) ==
    bookmark_id \in DOMAIN bTable /\ tag_id \in DOMAIN tTable

\* the old rows of the bookmark kept
CascadeBookmark_KeepsRows(rows, id) == rows

\* ON DELETE CASCADE of bookmark_tags.bookmark_id
CascadeBookmark(rows, id) == {r \in rows : r[1] # id}

\* a schema without ON DELETE CASCADE on tag_id and without foreign_keys = ON
CascadeTag_KeepsRows(rows, id) == rows

\* a cascade taking every row of the bookmarks that carried the tag
CascadeTag_WholeBookmarks(rows, id) ==
    {r \in rows : <<r[1], id>> \notin rows}

\* ON DELETE CASCADE of bookmark_tags.tag_id
CascadeTag(rows, id) == {r \in rows : r[2] # id}

\* the loop leaving after its first INSERT
InsertTagRows_FirstOnly(rows, bTable, tTable, id, tagIds) ==
    IF tagIds = <<>> THEN [rows |-> rows, ok |-> TRUE]
    ELSE IF ~ForeignKeyOk(bTable, tTable, id, Head(tagIds))
         THEN [rows |-> rows, ok |-> FALSE]
    ELSE [rows |-> rows \cup {<<id, Head(tagIds)>>}, ok |-> TRUE]

\* a plain INSERT, which throws on a row the primary key already holds
RECURSIVE InsertTagRows_NoIgnore(_, _, _, _, _)
InsertTagRows_NoIgnore(rows, bTable, tTable, id, tagIds) ==
    IF tagIds = <<>> THEN [rows |-> rows, ok |-> TRUE]
    ELSE IF \/ ~ForeignKeyOk(bTable, tTable, id, Head(tagIds))
            \/ <<id, Head(tagIds)>> \in rows
         THEN [rows |-> rows, ok |-> FALSE]
    ELSE InsertTagRows_NoIgnore(rows \cup {<<id, Head(tagIds)>>}, bTable, tTable,
                                id, Tail(tagIds))

\* INSERT OR IGNORE INTO bookmark_tags, run once per entry of tagIds in order.
\* PRIMARY KEY conflicts are ignored; a foreign-key failure throws and the
\* loop stops there, keeping the rows of the earlier statements.
RECURSIVE InsertTagRows(_, _, _, _, _)
InsertTagRows(rows, bTable, tTable, id, tagIds) ==
    IF tagIds = <<>> THEN [rows |-> rows, ok |-> TRUE]
    ELSE IF ~ForeignKeyOk(bTable, tTable, id, Head(tagIds))
         THEN [rows |-> rows, ok |-> FALSE]
    ELSE InsertTagRows(rows \cup {<<id, Head(tagIds)>>}, bTable, tTable,
                       id, Tail(tagIds))

----------------------------------------------------------------------------
(* Requests and responses *)

Request(op, param, body) == [op |-> op, param |-> param, body |-> body]

\* errorHandler: an AppError answers with its statusCode, any other error 500
Failure(status) == [status |-> status, data |-> <<>>]
Success(status, data) == [status |-> status, data |-> data]

\* the tag ids associated with a bookmark in bookmark_tags
TagsOf(rows, id) == {r[2] : r \in {x \in rows : x[1] = id}}

\* attachTags: the row in API naming with the tags joined through
\* bookmark_tags
attachTags(row, tTable, rows) ==
    [id |-> row.id, title |-> row.title, url |-> row.url,
     description |-> row.description, favicon |-> row.favicon,
     createdAt |-> row.created_at, updatedAt |-> row.updated_at,
     tags |-> LET ids == SortAsc(TagsOf(rows, row.id) \cap DOMAIN tTable)
              IN  [i \in 1..Len(ids) |-> tTable[ids[i]]]]

TagIdsOf(view) == {view.tags[i].id : i \in 1..Len(view.tags)}

----------------------------------------------------------------------------
(* Handlers of bookmarkRoutes.ts *)

\* POST /api/bookmarks
createBookmark(body) ==
    /\ request' = Request("createBookmark", <<>>, body)
    /\ IF ~Truthy(body.title) \/ ~Truthy(body.url)
       THEN /\ response' = Failure(400)
            /\ UNCHANGED <<store, now>>
       ELSE /\ bookmark_seq < MaxBookmarks
            /\ LET newId == AutoIncrement(bookmarks, bookmark_seq)
                   table == InsertBookmarkRow(bookmarks, newId,
                                Value(body.title), Value(body.url),
                                Coalesce(body.description, <<>>),
                                Coalesce(body.favicon, <<>>))
                   ins == IF IsPresent(body.tagIds) /\ Len(Value(body.tagIds)) > 0
                          THEN InsertTagRows(bookmark_tags, table, tags, newId,
                                             Value(body.tagIds))
                          ELSE [rows |-> bookmark_tags, ok |-> TRUE]
               IN  /\ bookmarks' = table
                   /\ bookmark_seq' = newId
                   /\ bookmark_tags' = ins.rows
                   /\ response' =
                        IF ins.ok
                        THEN Success(201, <<attachTags(table[newId], tags, ins.rows)>>)
                        ELSE Failure(500)
            /\ UNCHANGED <<tags, tag_seq, now>>

\* the DELETE of the old rows run whether or not the patch has tagIds
updateBookmark_AlwaysClears(param, body) ==
    LET id == Number(param) IN
    /\ request' = Request("updateBookmark", param, body)
    /\ IF isNaN(id)
       THEN /\ response' = Failure(400)
            /\ UNCHANGED <<store, now>>
       ELSE IF ~HasRow(bookmarks, id)
       THEN /\ response' = Failure(404)
            /\ UNCHANGED <<store, now>>
       ELSE LET existing == bookmarks[id.val]
                table == UpdateBookmarkRow(bookmarks, id.val,
                             Coalesce(body.title, existing.title),
                             Coalesce(body.url, existing.url),
                             Coalesce(body.description, existing.description),
                             Coalesce(body.favicon, existing.favicon))
                ins == IF IsPresent(body.tagIds)
                       THEN InsertTagRows(CascadeBookmark(bookmark_tags, id.val),
                                          table, tags, id.val, Value(body.tagIds))
                       ELSE [rows |-> CascadeBookmark(bookmark_tags, id.val), ok |-> TRUE]
            IN  /\ bookmarks' = table
                /\ bookmark_tags' = ins.rows
                /\ response' =
                     IF ins.ok
                     THEN Success(200, <<attachTags(table[id.val], tags, ins.rows)>>)
                     ELSE Failure(500)
                /\ UNCHANGED <<tags, bookmark_seq, tag_seq, now>>

\* PUT /api/bookmarks/:id
updateBookmark(param, body) ==
    LET id == Number(param) IN
    /\ request' = Request("updateBookmark", param, body)
    /\ IF isNaN(id)
       THEN /\ response' = Failure(400)
            /\ UNCHANGED <<store, now>>
       ELSE IF ~HasRow(bookmarks, id)
       THEN /\ response' = Failure(404)
            /\ UNCHANGED <<store, now>>
       ELSE LET existing == bookmarks[id.val]
                table == UpdateBookmarkRow(bookmarks, id.val,
                             Coalesce(body.title, existing.title),
                             Coalesce(body.url, existing.url),
                             Coalesce(body.description, existing.description),
                             Coalesce(body.favicon, existing.favicon))
                ins == IF IsPresent(body.tagIds)
                       THEN InsertTagRows(CascadeBookmark(bookmark_tags, id.val),
                                          table, tags, id.val, Value(body.tagIds))
                       ELSE [rows |-> bookmark_tags, ok |-> TRUE]
            IN  /\ bookmarks' = table
                /\ bookmark_tags' = ins.rows
                /\ response' =
                     IF ins.ok
                     THEN Success(200, <<attachTags(table[id.val], tags, ins.rows)>>)
                     ELSE Failure(500)
                /\ UNCHANGED <<tags, bookmark_seq, tag_seq, now>>

\* the DELETE run without the SELECT that looks the bookmark up first
deleteBookmark_NoLookup(param) ==
    LET id == Number(param) IN
    /\ request' = Request("deleteBookmark", param, <<>>)
    /\ IF isNaN(id)
       THEN /\ response' = Failure(400)
            /\ UNCHANGED <<store, now>>
       ELSE /\ bookmarks' = DeleteRow(bookmarks, id.val)
            /\ bookmark_tags' = CascadeBookmark(bookmark_tags, id.val)
            /\ response' = Success(200, <<[id |-> id.val]>>)
            /\ UNCHANGED <<tags, bookmark_seq, tag_seq, now>>

\* a delete that also sweeps the tags no bookmark carries any more
deleteBookmark_DropsUnusedTags(param) ==
    LET id == Number(param) IN
    /\ request' = Request("deleteBookmark", param, <<>>)
    /\ IF isNaN(id)
       THEN /\ response' = Failure(400)
            /\ UNCHANGED <<store, now>>
       ELSE IF ~HasRow(bookmarks, id)
       THEN /\ response' = Failure(404)
            /\ UNCHANGED <<store, now>>
       ELSE /\ bookmarks' = DeleteRow(bookmarks, id.val)
            /\ bookmark_tags' = CascadeBookmark(bookmark_tags, id.val)
            /\ tags' = [t \in {u \in DOMAIN tags : \E r \in bookmark_tags' : r[2] = u}
                          |-> tags[t]]
            /\ response' = Success(200, <<[id |-> id.val]>>)
            /\ UNCHANGED <<bookmark_seq, tag_seq, now>>

\* DELETE /api/bookmarks/:id
deleteBookmark(param) ==
    LET id == Number(param) IN
    /\ request' = Request("deleteBookmark", param, <<>>)
    /\ IF isNaN(id)
       THEN /\ response' = Failure(400)
            /\ UNCHANGED <<store, now>>
       ELSE IF ~HasRow(bookmarks, id)
       THEN /\ response' = Failure(404)
            /\ UNCHANGED <<store, now>>
       ELSE /\ bookmarks' = DeleteRow(bookmarks, id.val)
            /\ bookmark_tags' = CascadeBookmark(bookmark_tags, id.val)
            /\ response' = Success(200, <<[id |-> id.val]>>)
            /\ UNCHANGED <<tags, bookmark_seq, tag_seq, now>>

\* GET /api/bookmarks/:id
getBookmark(param) ==
    LET id == Number(param) IN
    /\ request' = Request("getBookmark", param, <<>>)
    /\ response' =
         IF isNaN(id) THEN Failure(400)
         ELSE IF ~HasRow(bookmarks, id) THEN Failure(404)
         ELSE Success(200, <<attachTags(bookmarks[id.val], tags, bookmark_tags)>>)
    /\ UNCHANGED <<store, now>>

\* `%${search}%`
Pattern(search) == <<"%">> \o search \o <<"%">>

\* WHERE title LIKE ? OR url LIKE ? OR description LIKE ?
MatchesSearch(row, search) ==
    \/ Like(row.title, Pattern(search))
    \/ Like(row.url, Pattern(search))
    \/ Like(row.description, Pattern(search))

\* the JOIN without its WHERE bt.tag_id = ?
JoinedWithTag_NoWhere(bTable, rows, n) ==
    {b \in DOMAIN bTable : \E r \in rows : r[1] = b}

\* JOIN bookmark_tags bt ON b.id = bt.bookmark_id WHERE bt.tag_id = ?, with
\* Number(tagId) bound: NaN and fractions equal no tag_id
JoinedWithTag(bTable, rows, n) ==
    {b \in DOMAIN bTable : ~n.nan /\ n.int /\ <<b, n.val>> \in rows}

\* both filters applied together
FilterBookmarks_Both(bTable, rows, query) ==
    LET byTag == IF Truthy(query.tagId)
                 THEN JoinedWithTag(bTable, rows, Number(Value(query.tagId)))
                 ELSE DOMAIN bTable
        bySearch == IF Truthy(query.search)
                    THEN {b \in DOMAIN bTable : MatchesSearch(bTable[b], Value(query.search))}
                    ELSE DOMAIN bTable
    IN  byTag \cap bySearch

\* the unfiltered branch reading through the JOIN of the tagId branch
FilterBookmarks_JoinAlways(bTable, rows, query) ==
    IF Truthy(query.tagId)
    THEN JoinedWithTag(bTable, rows, Number(Value(query.tagId)))
    ELSE IF Truthy(query.search)
    THEN {b \in DOMAIN bTable : MatchesSearch(bTable[b], Value(query.search))}
    ELSE {b \in DOMAIN bTable : \E r \in rows : r[1] = b}

\* the ids selected by the if (tagId) / else if (search) / else chain
FilterBookmarks(bTable, rows, query) ==
    IF Truthy(query.tagId)
    THEN JoinedWithTag(bTable, rows, Number(Value(query.tagId)))
    ELSE IF Truthy(query.search)
    THEN {b \in DOMAIN bTable : MatchesSearch(bTable[b], Value(query.search))}
    ELSE DOMAIN bTable

\* ORDER BY created_at DESC: every arrangement of the selected rows, each
\* once, in which created_at never increases (the order among rows of the
\* same second is the storage engine's)
OrderByCreatedDesc(bTable, ids) ==
    {o \in [1..Cardinality(ids) -> ids] :
        /\ \A i, j \in 1..Cardinality(ids) : i # j => o[i] # o[j]
        /\ \A i, j \in 1..Cardinality(ids) :
              i < j => bTable[o[i]].created_at >= bTable[o[j]].created_at}

\* rows.map((row) => attachTags(row))
Views(bTable, tTable, rows, order) ==
    [i \in 1..Len(order) |-> attachTags(bTable[order[i]], tTable, rows)]

\* what GET /api/bookmarks may answer for a query in a store
ListResults(bTable, tTable, rows, query) ==
    {Views(bTable, tTable, rows, o) :
        o \in OrderByCreatedDesc(bTable, FilterBookmarks(bTable, rows, query))}

\* GET /api/bookmarks
listBookmarks(query) ==
    /\ request' = Request("listBookmarks", <<>>, query)
    /\ \E data \in ListResults(bookmarks, tags, bookmark_tags, query) :
          response' = Success(200, data)
    /\ UNCHANGED <<store, now>>

----------------------------------------------------------------------------
(* Handlers of tagRoutes.ts *)

\* the characters of the tag names served, in the order of their codes
NameChars == <<"h", "w">>

CodeOf(c) == CHOOSE k \in 1..Len(NameChars) : NameChars[k] = c

\* a < b in the BINARY collation of the name column
RECURSIVE NameLess(_, _)
NameLess(a, b) ==
    IF b = <<>> THEN FALSE
    ELSE IF a = <<>> THEN TRUE
    ELSE IF Head(a) # Head(b) THEN CodeOf(Head(a)) < CodeOf(Head(b))
    ELSE NameLess(Tail(a), Tail(b))

\* SELECT * FROM tags ORDER BY name ASC (names are unique: one order)
RECURSIVE OrderByNameAsc(_, _)
OrderByNameAsc(tTable, ids) ==
    IF ids = {} THEN <<>>
    ELSE LET m == CHOOSE x \in ids :
                      \A y \in ids \ {x} : NameLess(tTable[x].name, tTable[y].name)
         IN  <<tTable[m]>> \o OrderByNameAsc(tTable, ids \ {m})

\* GET /api/tags
listTags ==
    /\ request' = Request("listTags", <<>>, <<>>)
    /\ response' = Success(200, OrderByNameAsc(tags, DOMAIN tags))
    /\ UNCHANGED <<store, now>>

\* POST /api/tags; fault: the INSERT INTO tags throws for a reason of the
\* storage (disk full, database locked, I/O error), not of the data
createTag(body, fault) ==
    /\ request' = Request("createTag", <<>>, body)
    /\ IF ~Truthy(body.name)
       THEN /\ response' = Failure(400)
            /\ UNCHANGED <<store, now>>
       ELSE IF fault \/ ~UniqueNameOk(tags, Value(body.name))
       THEN \* the INSERT throws and the bare catch around it answers 409
            /\ response' = Failure(409)
            /\ UNCHANGED <<store, now>>
       ELSE /\ tag_seq < MaxTags
            /\ LET newId == AutoIncrement(tags, tag_seq)
                   color == Coalesce(body.color, DefaultColor)
               IN  /\ tags' = InsertTagRow(tags, newId, Value(body.name), color)
                   /\ tag_seq' = newId
                   /\ response' = Success(201, <<[id |-> newId,
                                      name |-> Value(body.name), color |-> color]>>)
            /\ UNCHANGED <<bookmarks, bookmark_tags, bookmark_seq, now>>

\* DELETE /api/tags/:id
deleteTag(param) ==
    LET id == Number(param) IN
    /\ request' = Request("deleteTag", param, <<>>)
    /\ IF isNaN(id)
       THEN /\ response' = Failure(400)
            /\ UNCHANGED <<store, now>>
       ELSE IF ~HasRow(tags, id)
       THEN /\ response' = Failure(404)
            /\ UNCHANGED <<store, now>>
       ELSE /\ tags' = DeleteRow(tags, id.val)
            /\ bookmark_tags' = CascadeTag(bookmark_tags, id.val)
            /\ response' = Success(200, <<[id |-> id.val]>>)
            /\ UNCHANGED <<bookmarks, bookmark_seq, tag_seq, now>>

----------------------------------------------------------------------------
(* Startup (database.ts) *)

\* a table dropped and created anew at every start
CreateTableIfNotExists_Recreated(table, empty) == empty

\* CREATE TABLE IF NOT EXISTS on a database file that holds the table: the
\* statement is skipped and the table keeps its rows
CreateTableIfNotExists(table, empty) == table

\* the server process started again on the same database file; the
\* AUTOINCREMENT counters live in the file (sqlite_sequence)
initDatabase ==
    /\ request' = Request("initDatabase", <<>>, <<>>)
    /\ response' = [status |-> 0, data |-> <<>>]
    /\ bookmarks' = CreateTableIfNotExists(bookmarks, <<>>)
    /\ tags' = CreateTableIfNotExists(tags, <<>>)
    /\ bookmark_tags' = CreateTableIfNotExists(bookmark_tags, {})
    /\ UNCHANGED <<bookmark_seq, tag_seq, now>>

\* the wall clock moves on between requests
Tick ==
    /\ now < MaxTime
    /\ now' = now + 1
    /\ UNCHANGED <<store, request, response>>

----------------------------------------------------------------------------
(* Requests served *)

IdParams == {<<"1">>, <<"2">>, <<"3">>, <<"x">>, <<"1", ".", "5">>}

TagIdLists == {Absent, Some(<<>>), Some(<<1>>), Some(<<2>>), Some(<<1, 2>>),
               Some(<<1, 1>>), Some(<<2, 3>>)}

Body(title, url, description, favicon, tagIds) ==
    [title |-> title, url |-> url, description |-> description,
     favicon |-> favicon, tagIds |-> tagIds]

\* request bodies of POST /api/bookmarks: ones failing validation, and valid
\* ones with each tag list, a description, a favicon
CreateBodies ==
    {Body(Absent, Some(<<"u">>), Absent, Absent, Absent),
     Body(Some(<<>>), Some(<<"u">>), Absent, Absent, Some(<<1>>)),
     Body(Some(<<"A", "b">>), Some(<<>>), Absent, Absent, Some(<<1>>))}
    \cup {Body(Some(<<"A", "b">>), Some(<<"u">>), Absent, Absent, g) : g \in TagIdLists}
    \cup {Body(Some(<<"g">>), Some(<<"u">>), Some(<<"x">>), Some(<<"f">>), Absent)}

\* request bodies of PUT /api/bookmarks/:id: the empty patch, one field
\* alone, tagIds alone, and patches of several fields with tagIds
UpdateBodies ==
    {Body(t, Absent, Absent, Absent, Absent) : t \in {Absent, Some(<<>>), Some(<<"g">>)}}
    \cup {Body(Absent, u, Absent, Absent, Absent) : u \in {Some(<<>>), Some(<<"v">>)}}
    \cup {Body(Absent, Absent, d, Absent, Absent) : d \in {Some(<<>>), Some(<<"x">>)}}
    \cup {Body(Absent, Absent, Absent, f, Absent) : f \in {Some(<<>>), Some(<<"f">>)}}
    \cup {Body(Absent, Absent, Absent, Absent, g) : g \in TagIdLists \ {Absent}}
    \cup {Body(Some(<<"g">>), Absent, Some(<<"x">>), Absent, Some(<<1>>)),
          Body(Some(<<"g">>), Some(<<"v">>), Some(<<>>), Some(<<"f">>), Some(<<2, 3>>))}

\* PUT requests: every patch on the integer ids, two patches on the others
UpdateRequests ==
    {<<p, b>> : p \in {<<"1">>, <<"2">>, <<"3">>}, b \in UpdateBodies}
    \cup {<<p, b>> : p \in IdParams \ {<<"1">>, <<"2">>, <<"3">>},
                     b \in {Body(Absent, Absent, Some(<<"x">>), Absent, Absent),
                            Body(Some(<<"g">>), Absent, Some(<<"x">>), Absent, Some(<<1>>))}}

TagBodies ==
    [name : {Absent, Some(<<>>), Some(<<"w">>), Some(<<"h">>)},
     color : {Absent}]

\* one more step of the run: a request served or a clock tick
Served == ops < MaxOps /\ ops' = ops + 1 /\ UNCHANGED <<server, client>>

Init ==
    /\ bookmarks = <<>>
    /\ tags = <<>>
    /\ bookmark_tags = {}
    /\ bookmark_seq = 0
    /\ tag_seq = 0
    /\ now = 0
    /\ request = Request("none", <<>>, <<>>)
    /\ response = [status |-> 0, data |-> <<>>]
    /\ ops = 0
    /\ server = [queue |-> {}, running |-> {}]
    /\ client = [component |-> "none"]

Next ==
    \/ \E body \in CreateBodies : createBookmark(body) /\ Served
    \/ \E r \in UpdateRequests : updateBookmark(r[1], r[2]) /\ Served
    \/ \E param \in IdParams : deleteBookmark(param) /\ Served
    \/ \E param \in IdParams : getBookmark(param) /\ Served
    \/ \E body \in TagBodies, fault \in BOOLEAN : createTag(body, fault) /\ Served
    \/ \E param \in IdParams : deleteTag(param) /\ Served
    \/ listTags /\ Served
    \/ initDatabase /\ Served
    \/ Tick /\ Served

Spec == Init /\ [][Next]_vars

\* The catalogue as GET /api/bookmarks sees it: bookmarks whose texts hold
\* letters of both cases and the characters _ and %, listed under every
\* combination of the two filters.
ListCreateBodies ==
    {Body(Some(t), Some(<<"u">>), d, Absent, g) :
        t \in {<<"A", "b">>, <<"g", "_">>},
        d \in {Absent, Some(<<"a", "%">>)},
        g \in {Absent, Some(<<1>>)}}

ListUpdateRequests ==
    {<<p, b>> : p \in {<<"1">>, <<"2">>},
                b \in {Body(Absent, Absent, Absent, Absent, Some(<<>>)),
                       Body(Absent, Absent, Absent, Absent, Some(<<1>>)),
                       Body(Absent, Absent, Some(<<"G">>), Absent, Absent)}}

ListQueries ==
    [search : {Absent, Some(<<>>), Some(<<"a">>), Some(<<"g">>), Some(<<"_">>),
               Some(<<"%">>), Some(<<"x">>), Some(<<"a", "B">>)},
     tagId : {Absent, Some(<<>>), Some(<<"1">>), Some(<<"2">>), Some(<<"x">>)}]

NextList ==
    \/ \E body \in ListCreateBodies : createBookmark(body) /\ Served
    \/ \E r \in ListUpdateRequests : updateBookmark(r[1], r[2]) /\ Served
    \/ \E param \in {<<"1">>, <<"2">>} : deleteBookmark(param) /\ Served
    \/ \E body \in {[name |-> Some(<<"w">>), color |-> Absent]} :
          createTag(body, FALSE) /\ Served
    \/ \E param \in {<<"1">>} : deleteTag(param) /\ Served
    \/ \E param \in {<<"1">>, <<"2">>} : getBookmark(param) /\ Served
    \/ \E query \in ListQueries : listBookmarks(query) /\ Served
    \/ listTags /\ Served
    \/ Tick /\ Served

SpecList == Init /\ [][NextList]_vars

----------------------------------------------------------------------------
(* Requests that arrive together: the handlers of PUT and DELETE           *)
(* /api/bookmarks/:id statement by statement                               *)

MaxRequests == 3

\* a handler may start whatever else is under way
CanStart_Always(running) == TRUE

\* Node runs a callback only when the call stack is empty, and a handler
\* (no await, synchronous better-sqlite3) leaves the stack when it returns
CanStart(running) == running = {}

\* the id a PUT, GET or DELETE request names
IdOf(req) == Number(req.param).val

\* the process accepts a request: its handler is a callback waiting to run
Accept(op, param, body) ==
    /\ ops < MaxRequests
    /\ ops' = ops + 1
    /\ server' = [server EXCEPT !.queue =
                     @ \cup {[n |-> ops + 1, op |-> op, param |-> param, body |-> body]}]
    /\ UNCHANGED <<store, now, request, response>>

\* the event loop calls the handler of a waiting request
Dispatch(q) ==
    /\ q \in server.queue
    /\ CanStart(server.running)
    /\ server' = [queue |-> server.queue \ {q},
                  running |-> server.running
                      \cup {[req |-> q, pc |-> "select", existing |-> <<>>,
                             before |-> db]}]
    /\ UNCHANGED <<store, now, request, response, ops>>

\* res.json(...) or next(err): the handler answers and returns
Finish(h, answer) ==
    /\ request' = Request(h.req.op, h.req.param, h.req.body)
    /\ response' = answer
    /\ server' = [server EXCEPT !.running = @ \ {h}]

\* the handler goes on to its next statement
Advance(h, next) ==
    /\ server' = [server EXCEPT !.running = (@ \ {h}) \cup {next}]
    /\ UNCHANGED <<request, response>>

\* const id = Number(req.params.id); SELECT * FROM bookmarks WHERE id = ?
HandlerSelect(h) ==
    LET id == Number(h.req.param) IN
    /\ h.pc = "select"
    /\ IF isNaN(id) THEN Finish(h, Failure(400))
       ELSE IF ~HasRow(bookmarks, id) THEN Finish(h, Failure(404))
       ELSE Advance(h, [h EXCEPT !.pc = "write", !.existing = bookmarks[id.val]])
    /\ UNCHANGED <<store, now, ops>>

\* PUT: UPDATE bookmarks SET ... WHERE id = ? (no row, no change);
\* DELETE: DELETE FROM bookmarks WHERE id = ?, with its cascade
HandlerWrite(h) ==
    LET id == IdOf(h.req)
        body == h.req.body
    IN  /\ h.pc = "write"
        /\ IF h.req.op = "updateBookmark"
           THEN /\ bookmarks' =
                     IF id \in DOMAIN bookmarks
                     THEN UpdateBookmarkRow(bookmarks, id,
                              Coalesce(body.title, h.existing.title),
                              Coalesce(body.url, h.existing.url),
                              Coalesce(body.description, h.existing.description),
                              Coalesce(body.favicon, h.existing.favicon))
                     ELSE bookmarks
                /\ UNCHANGED bookmark_tags
                /\ Advance(h, [h EXCEPT !.pc = "tags"])
           ELSE /\ bookmarks' = DeleteRow(bookmarks, id)
                /\ bookmark_tags' = CascadeBookmark(bookmark_tags, id)
                /\ Advance(h, [h EXCEPT !.pc = "respond"])
        /\ UNCHANGED <<tags, bookmark_seq, tag_seq, now, ops>>

\* PUT: if (body.tagIds !== undefined) DELETE FROM bookmark_tags, then the
\* INSERT OR IGNORE loop
HandlerTags(h) ==
    LET id == IdOf(h.req)
        tagIds == h.req.body.tagIds
        ins == IF IsPresent(tagIds)
               THEN InsertTagRows(CascadeBookmark(bookmark_tags, id),
                                  bookmarks, tags, id, Value(tagIds))
               ELSE [rows |-> bookmark_tags, ok |-> TRUE]
    IN  /\ h.pc = "tags"
        /\ bookmark_tags' = ins.rows
        /\ IF ins.ok THEN Advance(h, [h EXCEPT !.pc = "respond"])
           ELSE Finish(h, Failure(500))
        /\ UNCHANGED <<bookmarks, tags, bookmark_seq, tag_seq, now, ops>>

\* PUT: SELECT the row again, attachTags(row), res.json (attachTags of no
\* row throws: 500); DELETE: res.json({ id })
HandlerRespond(h) ==
    LET id == IdOf(h.req) IN
    /\ h.pc = "respond"
    /\ IF h.req.op = "deleteBookmark"
       THEN Finish(h, Success(200, <<[id |-> id]>>))
       ELSE IF id \in DOMAIN bookmarks
       THEN Finish(h, Success(200, <<attachTags(bookmarks[id], tags, bookmark_tags)>>))
       ELSE Finish(h, Failure(500))
    /\ UNCHANGED <<store, now, ops>>

\* requests to bookmarks 1 and 2, stored, and to the ids 3 and x
ConcRequests ==
    {<<"updateBookmark", <<"1">>, b>> :
        b \in {Body(Absent, Absent, Absent, Absent, Some(<<2>>)),
               Body(Absent, Absent, Absent, Absent, Some(<<>>)),
               Body(Absent, Absent, Some(<<"x">>), Absent, Absent)}}
    \cup {<<"updateBookmark", <<"2">>, Body(Some(<<"g">>), Absent, Absent, Absent, Some(<<1>>))>>,
          <<"updateBookmark", <<"3">>, Body(Some(<<"g">>), Absent, Absent, Absent, Absent)>>,
          <<"deleteBookmark", <<"1">>, <<>>>>,
          <<"deleteBookmark", <<"2">>, <<>>>>,
          <<"deleteBookmark", <<"x">>, <<>>>>}

\* a store left by createTag twice and createBookmark twice within one
\* second, bookmark 1 carrying tag 1 or no tag
InitConc ==
    /\ tags = [t \in {1, 2} |->
                 [id |-> t, name |-> IF t = 1 THEN <<"h">> ELSE <<"w">>,
                  color |-> DefaultColor]]
    /\ tag_seq = 2
    /\ bookmarks = [i \in {1, 2} |->
                      [id |-> i, title |-> <<"A", "b">>, url |-> <<"u">>,
                       description |-> <<>>, favicon |-> <<>>,
                       created_at |-> 0, updated_at |-> 0]]
    /\ bookmark_seq = 2
    /\ bookmark_tags \in {{}, {<<1, 1>>}}
    /\ now = 0
    /\ request = Request("none", <<>>, <<>>)
    /\ response = [status |-> 0, data |-> <<>>]
    /\ ops = 0
    /\ server = [queue |-> {}, running |-> {}]
    /\ client = [component |-> "none"]

NextConc ==
    \/ \E r \in ConcRequests : Accept(r[1], r[2], r[3]) /\ UNCHANGED client
    \/ \E q \in server.queue : Dispatch(q) /\ UNCHANGED client
    \/ \E h \in server.running : HandlerSelect(h) /\ UNCHANGED client
    \/ \E h \in server.running : HandlerWrite(h) /\ UNCHANGED client
    \/ \E h \in server.running : HandlerTags(h) /\ UNCHANGED client
    \/ \E h \in server.running : HandlerRespond(h) /\ UNCHANGED client

SpecConc == InitConc /\ [][NextConc]_vars

----------------------------------------------------------------------------
(* useDebounce (packages/ui/src/hooks/useDebounce.ts)                      *)
(* client = [value, delay: the arguments of the last render; debounced:    *)
(* the state returned; timers: the timeouts set and neither fired nor      *)
(* cleared; timer: the id the last effect holds; since: the clock reading  *)
(* at which value last changed]                                            *)

MaxClock == 4

DebounceValues == {<<>>, <<"a">>, <<"a", "b">>}
DebounceDelays == {1, 2}

\* a cleanup that leaves the timeout pending
clearTimeout_Noop(timers, id) == timers

\* clearTimeout(timer)
clearTimeout(timers, id) == {t \in timers : t.id # id}

\* setTimeout(() => setDebouncedValue(value), delay)
setTimeout(timers, id, value, delay) ==
    timers \cup {[id |-> id, value |-> value, due |-> now + delay]}

\* the first render: useState(value), then the effect sets its timeout
InitDebounce ==
    /\ \E v \in DebounceValues, d \in DebounceDelays :
          client = [component |-> "useDebounce", value |-> v, delay |-> d,
                    debounced |-> v,
                    timers |-> {[id |-> 0, value |-> v, due |-> d]},
                    timer |-> 0, since |-> 0]
    /\ bookmarks = <<>> /\ tags = <<>> /\ bookmark_tags = {}
    /\ bookmark_seq = 0 /\ tag_seq = 0
    /\ now = 0
    /\ request = Request("none", <<>>, <<>>)
    /\ response = [status |-> 0, data |-> <<>>]
    /\ ops = 0
    /\ server = [queue |-> {}, running |-> {}]

\* a render with another value or delay: [value, delay] changed, so the
\* cleanup of the last effect runs and the effect runs again
Rerender(value, delay) ==
    /\ <<value, delay>> # <<client.value, client.delay>>
    /\ ops < MaxOps
    /\ ops' = ops + 1
    /\ client' = [client EXCEPT
                     !.value = value, !.delay = delay,
                     !.timers = setTimeout(clearTimeout(@, client.timer),
                                           ops + 1, value, delay),
                     !.timer = ops + 1,
                     !.since = IF value # client.value THEN now ELSE @]
    /\ UNCHANGED <<store, now, request, response, server>>

\* a timeout that is due calls back: setDebouncedValue(value)
TimerFires(t) ==
    /\ t \in client.timers
    /\ now >= t.due
    /\ client' = [client EXCEPT !.debounced = t.value, !.timers = @ \ {t}]
    /\ UNCHANGED <<store, now, request, response, ops, server>>

\* time passes
ClockTick ==
    /\ now < MaxClock
    /\ now' = now + 1
    /\ UNCHANGED <<store, request, response, ops, server, client>>

NextDebounce ==
    \/ \E v \in DebounceValues, d \in DebounceDelays : Rerender(v, d)
    \/ \E t \in client.timers : TimerFires(t)
    \/ ClockTick

SpecDebounce == InitDebounce /\ [][NextDebounce]_vars

----------------------------------------------------------------------------
(* useBookmarks (packages/shared/src/index.ts)                             *)
(* client = [filters: the argument of the last render; bookmarks: the      *)
(* state returned; inflight: the fetchBookmarks calls that have not        *)
(* resolved, each with the query it sent and, once the server has          *)
(* answered, the data on its way back]                                     *)

MaxRenders == 2

\* String(n) of a one-digit number
String(n) == <<CHOOSE c \in DigitChars : DigitVal(c) = n>>

\* api.fetchBookmarks({search: searchQuery || undefined, tagId: tagId ??
\* undefined}), which sets a query parameter for each truthy one
QueryFor(filters) ==
    [search |-> IF Truthy(filters.search) THEN filters.search ELSE Absent,
     tagId |-> IF IsPresent(filters.tagId) /\ Value(filters.tagId) # 0
               THEN Some(String(Value(filters.tagId))) ELSE Absent]

HookFilters ==
    [search : {Absent, Some(<<>>), Some(<<"a">>), Some(<<"g">>)},
     tagId : {Absent, Some(1)}]

\* the call of refresh() by the effect: the request leaves
Refresh(inflight, n, filters) ==
    inflight \cup {[n |-> n, query |-> QueryFor(filters), served |-> FALSE,
                    data |-> <<>>]}

\* the first render over a store left by createTag, createBookmark with
\* tag 1 and, a second later, createBookmark without tags
InitHook ==
    /\ tags = <<[id |-> 1, name |-> <<"w">>, color |-> DefaultColor]>>
    /\ tag_seq = 1
    /\ bookmarks = <<[id |-> 1, title |-> <<"A", "b">>, url |-> <<"u">>,
                      description |-> <<>>, favicon |-> <<>>,
                      created_at |-> 0, updated_at |-> 0],
                     [id |-> 2, title |-> <<"g", "_">>, url |-> <<"u">>,
                      description |-> <<>>, favicon |-> <<>>,
                      created_at |-> 1, updated_at |-> 1]>>
    /\ bookmark_seq = 2
    /\ bookmark_tags = {<<1, 1>>}
    /\ now = 1
    /\ request = Request("none", <<>>, <<>>)
    /\ response = [status |-> 0, data |-> <<>>]
    /\ ops = 0
    /\ server = [queue |-> {}, running |-> {}]
    /\ \E f \in HookFilters :
          client = [component |-> "useBookmarks", filters |-> f,
                    bookmarks |-> <<>>, inflight |-> Refresh({}, 0, f)]

\* a render with other filters: refresh is a new callback, the effect calls it
SetFilters(f) ==
    /\ f # client.filters
    /\ ops < MaxRenders
    /\ ops' = ops + 1
    /\ client' = [client EXCEPT !.filters = f,
                                !.inflight = Refresh(@, ops + 1, f)]
    /\ UNCHANGED <<store, now, request, response, server>>

\* a request reaches the server and GET /api/bookmarks answers it
FetchServed(r) ==
    /\ r \in client.inflight
    /\ ~r.served
    /\ listBookmarks(r.query)
    /\ client' = [client EXCEPT !.inflight =
                     (@ \ {r}) \cup {[r EXCEPT !.served = TRUE,
                                               !.data = response'.data]}]
    /\ UNCHANGED <<ops, server>>

\* the awaited fetchBookmarks resolves: setBookmarks(data)
FetchResolves(r) ==
    /\ r \in client.inflight
    /\ r.served
    /\ client' = [client EXCEPT !.bookmarks = r.data, !.inflight = @ \ {r}]
    /\ UNCHANGED <<store, now, request, response, ops, server>>

NextHook ==
    \/ \E f \in HookFilters : SetFilters(f)
    \/ \E r \in client.inflight : FetchServed(r)
    \/ \E r \in client.inflight : FetchResolves(r)

SpecHook == InitHook /\ [][NextHook]_vars

----------------------------------------------------------------------------
(* BookmarkCard.handleQuickTag (packages/client/.../BookmarkCard.tsx)      *)
(* client = [id, tags: the bookmark prop (its id and the ids of its tags); *)
(* inflight: the updateBookmark calls that have not resolved; clicked: the *)
(* tags clicked so far; original: the tags of the bookmark at the start]   *)

MaxClicks == 3

\* currentTagIds.includes(tagId) ? currentTagIds.filter((id) => id !== tagId)
\*                               : [...currentTagIds, tagId]
ToggledTagIds(currentTagIds, tagId) ==
    IF tagId \in Range(currentTagIds)
    THEN SelectSeq(currentTagIds, LAMBDA id : id # tagId)
    ELSE Append(currentTagIds, tagId)

\* a card showing bookmark 1 of a store left by createTag twice and
\* createBookmark with some of the two tags
InitCard ==
    /\ tags = [t \in {1, 2} |->
                 [id |-> t, name |-> IF t = 1 THEN <<"h">> ELSE <<"w">>,
                  color |-> DefaultColor]]
    /\ tag_seq = 2
    /\ bookmarks = <<[id |-> 1, title |-> <<"A", "b">>, url |-> <<"u">>,
                      description |-> <<>>, favicon |-> <<>>,
                      created_at |-> 0, updated_at |-> 0]>>
    /\ bookmark_seq = 1
    /\ bookmark_tags \in SUBSET {<<1, 1>>, <<1, 2>>}
    /\ now \in {0, 1}
    /\ request = Request("none", <<>>, <<>>)
    /\ response = [status |-> 0, data |-> <<>>]
    /\ ops = 0
    /\ server = [queue |-> {}, running |-> {}]
    /\ client = [component |-> "BookmarkCard", id |-> 1,
                 tags |-> SortAsc(TagsOf(bookmark_tags, 1)),
                 inflight |-> {}, clicked |-> <<>>,
                 original |-> TagsOf(bookmark_tags, 1)]

\* a click in the tag menu: api.updateBookmark(bookmark.id, {tagIds}) leaves
handleQuickTag(tagId) ==
    /\ ops < MaxClicks
    /\ ops' = ops + 1
    /\ client' = [client EXCEPT
                     !.inflight = @ \cup {[n |-> ops + 1,
                                           tagIds |-> ToggledTagIds(client.tags, tagId),
                                           served |-> FALSE, data |-> <<>>]},
                     !.clicked = Append(@, tagId)]
    /\ UNCHANGED <<store, now, request, response, server>>

\* a request reaches the server and PUT /api/bookmarks/:id answers it
QuickTagServed(r) ==
    /\ r \in client.inflight
    /\ ~r.served
    /\ updateBookmark(String(client.id),
                      Body(Absent, Absent, Absent, Absent, Some(r.tagIds)))
    /\ client' = [client EXCEPT !.inflight =
                     (@ \ {r}) \cup {[r EXCEPT !.served = TRUE,
                                               !.data = response'.data]}]
    /\ UNCHANGED <<ops, server>>

\* the awaited updateBookmark resolves: onEdit(updated) gives the card the
\* bookmark of the response
QuickTagResolves(r) ==
    /\ r \in client.inflight
    /\ r.served
    /\ client' = [client EXCEPT
                     !.tags = [i \in 1..Len(r.data[1].tags) |-> r.data[1].tags[i].id],
                     !.inflight = @ \ {r}]
    /\ UNCHANGED <<store, now, request, response, ops, server>>

NextCard ==
    \/ \E t \in DOMAIN tags : handleQuickTag(t)
    \/ \E r \in client.inflight : QuickTagServed(r)
    \/ \E r \in client.inflight : QuickTagResolves(r)

SpecCard == InitCard /\ [][NextCard]_vars

----------------------------------------------------------------------------
(* BookmarkForm in edit mode (client/src/components/BookmarkForm.tsx)      *)
(* client = [id: editingBookmark.id; title, url, description,              *)
(* selectedTagIds: the form state; submitting; pending: the body of the    *)
(* request under way; submitted: the selection when submit was pressed;    *)
(* saved: onSave was called; error]                                        *)

\* s.trim(), for texts whose only white space is the blank
RECURSIVE trim(_)
trim(s) ==
    IF s = <<>> THEN s
    ELSE IF Head(s) = " " THEN trim(Tail(s))
    ELSE IF s[Len(s)] = " " THEN trim(SubSeq(s, 1, Len(s) - 1))
    ELSE s

\* the data handleSubmit builds, as JSON.stringify sends it (undefined
\* members are left out)
SubmitData(form) ==
    Body(Some(trim(form.title)), Some(trim(form.url)),
         IF trim(form.description) # <<>> THEN Some(trim(form.description))
         ELSE Absent,
         Absent,
         IF Len(form.selectedTagIds) > 0 THEN Some(form.selectedTagIds)
         ELSE Absent)

\* the form opened on bookmark 1 of a store left by createTag twice and
\* createBookmark with some of the two tags; the effect on [editingBookmark]
\* has copied the bookmark into the form state
InitForm ==
    /\ tags = [t \in {1, 2} |->
                 [id |-> t, name |-> IF t = 1 THEN <<"h">> ELSE <<"w">>,
                  color |-> DefaultColor]]
    /\ tag_seq = 2
    /\ bookmarks = <<[id |-> 1, title |-> <<"A", "b">>, url |-> <<"u">>,
                      description |-> <<>>, favicon |-> <<>>,
                      created_at |-> 0, updated_at |-> 0]>>
    /\ bookmark_seq = 1
    /\ bookmark_tags \in SUBSET {<<1, 1>>, <<1, 2>>}
    /\ now \in {0, 1}
    /\ request = Request("none", <<>>, <<>>)
    /\ response = [status |-> 0, data |-> <<>>]
    /\ ops = 0
    /\ server = [queue |-> {}, running |-> {}]
    /\ client = [component |-> "BookmarkForm", id |-> 1,
                 title |-> bookmarks[1].title, url |-> bookmarks[1].url,
                 description |-> bookmarks[1].description,
                 selectedTagIds |-> SortAsc(TagsOf(bookmark_tags, 1)),
                 submitting |-> FALSE, pending |-> <<>>, submitted |-> <<>>,
                 saved |-> FALSE, error |-> FALSE]

\* a click on a tag of the form
handleToggleTag(tagId) ==
    /\ ~client.saved
    /\ ops < MaxClicks
    /\ ops' = ops + 1
    /\ client' = [client EXCEPT
                     !.selectedTagIds = ToggledTagIds(@, tagId)]
    /\ UNCHANGED <<store, now, request, response, server>>

\* typing in the title field
setTitle(value) ==
    /\ ~client.saved
    /\ value # client.title
    /\ ops < MaxClicks
    /\ ops' = ops + 1
    /\ client' = [client EXCEPT !.title = value]
    /\ UNCHANGED <<store, now, request, response, server>>

\* the form is submitted: validation, then api.updateBookmark leaves
handleSubmit ==
    /\ ~client.saved /\ ~client.submitting
    /\ IF trim(client.title) = <<>> \/ trim(client.url) = <<>>
       THEN client' = [client EXCEPT !.error = TRUE]
       ELSE client' = [client EXCEPT !.error = FALSE, !.submitting = TRUE,
                                     !.pending = SubmitData(client),
                                     !.submitted = client.selectedTagIds]
    /\ UNCHANGED <<store, now, request, response, ops, server>>

\* PUT /api/bookmarks/:id answers and the awaited call settles: onSave(result)
\* on success, setError on failure, setSubmitting(false)
SubmitSettles ==
    /\ client.submitting
    /\ updateBookmark(String(client.id), client.pending)
    /\ client' = [client EXCEPT !.submitting = FALSE,
                                !.saved = (response'.status = 200),
                                !.error = (response'.status # 200)]
    /\ UNCHANGED <<ops, server>>

NextForm ==
    \/ \E t \in DOMAIN tags : handleToggleTag(t)
    \/ \E v \in {<<"A", "b">>, <<" ">>, <<"g", " ">>} : setTitle(v)
    \/ handleSubmit
    \/ SubmitSettles

SpecForm == InitForm /\ [][NextForm]_vars

----------------------------------------------------------------------------
(* Properties *)

\* a step in which a handler answered (the clock stands still in it)
Answered(op) == now' = now /\ request'.op = op

\* C1: whenever createBookmark or updateBookmark ends in an error, the stored
\* bookmarks and association rows are exactly what they were before the call.
C1_FailedWriteLeavesNoTrace ==
    [][(/\ request'.op \in {"createBookmark", "updateBookmark"}
        /\ now' = now
        /\ response'.status >= 400)
       => UNCHANGED <<bookmarks, bookmark_tags>>]_vars

\* C2: every association row references a bookmark that exists and a tag that
\* exists; no orphaned row is reachable.
C2_NoOrphanAssociation ==
    \A r \in bookmark_tags : r[1] \in DOMAIN bookmarks /\ r[2] \in DOMAIN tags

\* a parent was deleted while associations of other parents remain
C2_Witness ==
    /\ request.op \in {"deleteTag", "deleteBookmark"}
    /\ response.status = 200
    /\ bookmark_tags # {}

\* C3: every stored bookmark has a non-empty title and a non-empty url,
\* whatever patches updateBookmark was given.
C3_TitleAndUrlNonEmpty ==
    \A i \in DOMAIN bookmarks :
        bookmarks[i].title # <<>> /\ bookmarks[i].url # <<>>

\* C4: a successful updateBookmark whose patch has tagIds leaves the bookmark
\* associated with exactly the tags named in tagIds (none for the empty
\* sequence), in the store and in the returned record, and getBookmark returns
\* the stored association set; a patch without tagIds leaves the bookmark's
\* association set as it was.
C4_TagIdsReplaceAssociations ==
    [][/\ (Answered("updateBookmark") /\ response'.status = 200)
          => LET id == IdOf(request')
                 tagIds == request'.body.tagIds
             IN  IF IsPresent(tagIds)
                 THEN /\ TagsOf(bookmark_tags', id) = Range(Value(tagIds))
                      /\ TagIdsOf(response'.data[1]) = Range(Value(tagIds))
                 ELSE TagsOf(bookmark_tags', id) = TagsOf(bookmark_tags, id)
       /\ (Answered("getBookmark") /\ response'.status = 200)
          => TagIdsOf(response'.data[1]) = TagsOf(bookmark_tags, IdOf(request'))
      ]_vars

\* an update with tagIds = [1, 2] has succeeded on a bookmark
C4_Witness ==
    /\ request.op = "updateBookmark"
    /\ response.status = 200
    /\ request.body.tagIds = Some(<<1, 2>>)
    /\ TagsOf(bookmark_tags, IdOf(request)) = {1, 2}

\* C5: updateBookmark on an existing id sets each of title, url, description
\* and favicon present in the patch to the patch value (the empty string
\* included) and keeps the stored value of every absent field.
C5_PartialUpdate ==
    [][(Answered("updateBookmark") /\ HasRow(bookmarks, Number(request'.param)))
       => LET id == IdOf(request')
              patch == request'.body
              old == bookmarks[id]
              new == bookmarks'[id]
          IN  /\ id \in DOMAIN bookmarks'
              /\ new.title = IF IsPresent(patch.title) THEN Value(patch.title) ELSE old.title
              /\ new.url = IF IsPresent(patch.url) THEN Value(patch.url) ELSE old.url
              /\ new.description = IF IsPresent(patch.description)
                                   THEN Value(patch.description) ELSE old.description
              /\ new.favicon = IF IsPresent(patch.favicon)
                               THEN Value(patch.favicon) ELSE old.favicon
      ]_vars

\* a patch with an empty title was stored, the url it did not name was kept
C5_Witness ==
    /\ request.op = "updateBookmark"
    /\ response.status = 200
    /\ request.body.title = Some(<<>>)
    /\ ~IsPresent(request.body.url)
    /\ bookmarks[IdOf(request)].title = <<>>
    /\ bookmarks[IdOf(request)].url = <<"u">>

\* C6: updateBookmark(id, {description: x}) on an existing bookmark leaves its
\* title, url and tag set, every other bookmark, every tag and every other
\* association unchanged, and updatedAt is not earlier than it was.
C6_DescriptionOnlyFrame ==
    [][(/\ Answered("updateBookmark")
        /\ HasRow(bookmarks, Number(request'.param))
        /\ IsPresent(request'.body.description)
        /\ request'.body = Body(Absent, Absent, request'.body.description, Absent, Absent))
       => LET id == IdOf(request')
          IN  /\ DOMAIN bookmarks' = DOMAIN bookmarks
              /\ bookmarks'[id].title = bookmarks[id].title
              /\ bookmarks'[id].url = bookmarks[id].url
              /\ bookmarks'[id].updated_at >= bookmarks[id].updated_at
              /\ \A j \in DOMAIN bookmarks \ {id} : bookmarks'[j] = bookmarks[j]
              /\ bookmark_tags' = bookmark_tags
              /\ tags' = tags
      ]_vars

\* a description-only patch was applied, at a later second than the creation,
\* to a tagged bookmark
C6_Witness ==
    /\ request.op = "updateBookmark"
    /\ response.status = 200
    /\ request.body = Body(Absent, Absent, Some(<<"x">>), Absent, Absent)
    /\ bookmarks[IdOf(request)].updated_at > bookmarks[IdOf(request)].created_at
    /\ TagsOf(bookmark_tags, IdOf(request)) # {}

\* C7: createBookmark with non-empty title and url and tagIds naming existing
\* tags answers with a record, equal to what getBookmark of the new id reads,
\* that carries the given title and url and exactly the tags of tagIds.
C7_CreateRoundTrip ==
    LET body == request.body
        given == IF IsPresent(body.tagIds) THEN Range(Value(body.tagIds)) ELSE {}
    IN  (/\ request.op = "createBookmark"
         /\ Truthy(body.title) /\ Truthy(body.url)
         /\ given \subseteq DOMAIN tags)
        => /\ response.status = 201
           /\ LET view == response.data[1]
              IN  /\ view.title = Value(body.title)
                  /\ view.url = Value(body.url)
                  /\ TagIdsOf(view) = given
                  /\ view.id \in DOMAIN bookmarks
                  /\ bookmarks[view.id].title = Value(body.title)
                  /\ bookmarks[view.id].url = Value(body.url)
                  /\ TagsOf(bookmark_tags, view.id) = given

\* a bookmark was created with tagIds = [1, 2] and came back with two tags
C7_Witness ==
    /\ request.op = "createBookmark"
    /\ response.status = 201
    /\ request.body.tagIds = Some(<<1, 2>>)
    /\ Len(response.data[1].tags) = 2

\* C8: a freshly created bookmark has createdAt = updatedAt; afterwards its
\* createdAt never changes and its updatedAt never decreases.
C8_Timestamps ==
    [][\A i \in DOMAIN bookmarks' :
          IF i \notin DOMAIN bookmarks
          THEN bookmarks'[i].created_at = bookmarks'[i].updated_at
          ELSE /\ bookmarks'[i].created_at = bookmarks[i].created_at
               /\ bookmarks'[i].updated_at >= bookmarks[i].updated_at
      ]_vars

\* a bookmark was updated at a later second than it was created
C8_Witness ==
    /\ request.op = "updateBookmark"
    /\ response.status = 200
    /\ bookmarks[IdOf(request)].created_at < bookmarks[IdOf(request)].updated_at

\* C9: when listBookmarks receives both a tagId and a non-empty search, the
\* result is exactly the result of listBookmarks with that tagId alone.
C9_TagIdWinsOverSearch ==
    /\ \A query \in ListQueries :
          (Truthy(query.tagId) /\ Truthy(query.search))
          => ListResults(bookmarks, tags, bookmark_tags, query)
             = ListResults(bookmarks, tags, bookmark_tags,
                           [query EXCEPT !.search = Absent])
    /\ (/\ request.op = "listBookmarks"
        /\ Truthy(request.body.tagId) /\ Truthy(request.body.search))
       => /\ response.status = 200
          /\ response.data \in ListResults(bookmarks, tags, bookmark_tags,
                                           [request.body EXCEPT !.search = Absent])

\* both filters were given, and the answer holds a bookmark that the search
\* does not match while a bookmark that it matches is left out
C9_Witness ==
    /\ request.op = "listBookmarks"
    /\ Truthy(request.body.tagId) /\ Truthy(request.body.search)
    /\ \E i \in 1..Len(response.data) :
          ~MatchesSearch(bookmarks[response.data[i].id], Value(request.body.search))
    /\ \E b \in DOMAIN bookmarks :
          /\ MatchesSearch(bookmarks[b], Value(request.body.search))
          /\ \A i \in 1..Len(response.data) : response.data[i].id # b

\* s contains sub, letters compared without regard to case
ContainsIgnoringCase(s, sub) ==
    \E k \in 0..(Len(s) - Len(sub)) :
        \A i \in 1..Len(sub) : Lower(s[k + i]) = Lower(sub[i])

\* C10: for every non-empty search string and no tagId, listBookmarks returns
\* exactly the bookmarks whose title, url or description contains the search
\* string as a case-insensitive substring, also for strings with % or _.
C10_SearchIsSubstringMatch ==
    (/\ request.op = "listBookmarks"
     /\ ~IsPresent(request.body.tagId)
     /\ Truthy(request.body.search))
    => LET search == Value(request.body.search)
       IN  {response.data[i].id : i \in 1..Len(response.data)}
           = {b \in DOMAIN bookmarks :
                 \/ ContainsIgnoringCase(bookmarks[b].title, search)
                 \/ ContainsIgnoringCase(bookmarks[b].url, search)
                 \/ ContainsIgnoringCase(bookmarks[b].description, search)}

\* the ids of a listing, in the order returned
ListedIds == [i \in 1..Len(response.data) |-> response.data[i].id]

\* a sequence that names nothing twice
NoRepeats(seq) == \A i, j \in 1..Len(seq) : i # j => seq[i] # seq[j]

\* C11: listBookmarks with a tagId answers successfully with exactly the
\* bookmarks that have an association row with that tag, each at most once;
\* for a tag without bookmarks, or an id no tag has, the answer is the empty
\* sequence.
C11_TagFilter ==
    (request.op = "listBookmarks" /\ Truthy(request.body.tagId))
    => LET n == Number(Value(request.body.tagId))
       IN  /\ response.status = 200
           /\ NoRepeats(ListedIds)
           /\ Range(ListedIds)
                = {b \in DOMAIN bookmarks :
                      \E r \in bookmark_tags :
                          r[1] = b /\ ~n.nan /\ n.int /\ r[2] = n.val}
           /\ (~HasRow(tags, n) => response.data = <<>>)

\* a listing by the id of no tag came back empty while a tagged bookmark
\* and an untagged one are stored
C11_Witness ==
    /\ request.op = "listBookmarks"
    /\ request.body.tagId = Some(<<"2">>)
    /\ response = Success(200, <<>>)
    /\ \E b, c \in DOMAIN bookmarks :
          TagsOf(bookmark_tags, b) = {1} /\ TagsOf(bookmark_tags, c) = {}

\* C12: listBookmarks with no tagId and an absent or empty search answers
\* with every stored bookmark, each exactly once.
C12_Unfiltered ==
    (/\ request.op = "listBookmarks"
     /\ ~Truthy(request.body.tagId)
     /\ ~Truthy(request.body.search))
    => /\ response.status = 200
       /\ NoRepeats(ListedIds)
       /\ Range(ListedIds) = DOMAIN bookmarks

\* an unfiltered listing with an empty search returned two bookmarks, one
\* of them without a tag
C12_Witness ==
    /\ request.op = "listBookmarks"
    /\ request.body = [search |-> Some(<<>>), tagId |-> Absent]
    /\ Len(response.data) = 2
    /\ \E b \in DOMAIN bookmarks : TagsOf(bookmark_tags, b) = {}

\* C13: in every answer of listBookmarks, under each filter branch, a
\* bookmark created later than another (ids are handed out in creation order,
\* so the one with the larger id) stands before it.
C13_NewestFirst ==
    request.op = "listBookmarks"
    => \A i, j \in 1..Len(ListedIds) :
          ListedIds[i] > ListedIds[j] => i < j

\* a state in which the last request served was a successful deleteBookmark
BookmarkJustDeleted == request.op = "deleteBookmark" /\ response.status = 200

\* C14: a successful deleteBookmark(id) leaves no association row with that
\* bookmark id; a getBookmark(id) that follows it answers NotFound, and a
\* deleteTag that follows it on a stored tag no bookmark carries any more
\* succeeds and removes the tag.
C14_DeleteBookmarkCascades ==
    [][/\ (Answered("deleteBookmark") /\ response'.status = 200)
          => /\ \A r \in bookmark_tags' : r[1] # IdOf(request')
             /\ IdOf(request') \notin DOMAIN bookmarks'
       /\ (BookmarkJustDeleted /\ Answered("getBookmark")
             /\ request'.param = request.param)
          => response'.status = 404
       /\ (BookmarkJustDeleted /\ Answered("deleteTag")
             /\ HasRow(tags, Number(request'.param))
             /\ \A r \in bookmark_tags : r[2] # IdOf(request'))
          => /\ response'.status = 200
             /\ IdOf(request') \notin DOMAIN tags'
      ]_vars

\* the only bookmark ever stored was deleted and then the only tag was
C14_Witness ==
    /\ request.op = "deleteTag"
    /\ response.status = 200
    /\ bookmark_seq = 1 /\ bookmarks = <<>>
    /\ tag_seq = 1 /\ tags = <<>>
    /\ bookmark_tags = {}

\* C15: a successful deleteTag(id) removes, in the one step, the tag and
\* every association row that references it and nothing else: no bookmark
\* and no other tag is removed or changed, and every bookmark that carried
\* the tag keeps its other tags.
C15_DeleteTagCascades ==
    [][(Answered("deleteTag") /\ response'.status = 200)
       => LET id == IdOf(request')
          IN  /\ id \in DOMAIN tags
              /\ tags' = [t \in DOMAIN tags \ {id} |-> tags[t]]
              /\ bookmarks' = bookmarks
              /\ \A b \in DOMAIN bookmarks :
                    TagsOf(bookmark_tags', b) = TagsOf(bookmark_tags, b) \ {id}
              /\ bookmark_tags' \subseteq bookmark_tags
      ]_vars

\* tag 1 was deleted while a bookmark, never updated, carries tag 2
C15_Witness ==
    /\ request = Request("deleteTag", <<"1">>, <<>>)
    /\ response.status = 200
    /\ \E b \in DOMAIN bookmarks :
          /\ TagsOf(bookmark_tags, b) = {2}
          /\ bookmarks[b].updated_at = bookmarks[b].created_at

\* a tag of that name is stored
NameTaken(table, name) == \E t \in DOMAIN table : table[t].name = name

\* C16: no two stored tags share a name, in every reachable state; createTag
\* with the name of a stored tag answers Conflict and leaves the tags as they
\* were.
C16_TagNamesUnique ==
    [][/\ \A t, u \in DOMAIN tags' : t # u => tags'[t].name # tags'[u].name
       /\ (/\ Answered("createTag")
           /\ Truthy(request'.body.name)
           /\ NameTaken(tags, Value(request'.body.name)))
          => response'.status = 409 /\ tags' = tags
      ]_vars

\* the name of one of two stored tags was asked for again and refused
C16_Witness ==
    /\ request.op = "createTag"
    /\ response.status = 409
    /\ Cardinality(DOMAIN tags) = 2
    /\ NameTaken(tags, Value(request.body.name))

\* C17: createTag answers Conflict only when a tag of the given name is
\* stored; an INSERT that fails for another reason is not answered with
\* Conflict.
C17_ConflictOnlyForTakenName ==
    (request.op = "createTag" /\ response.status = 409)
    => NameTaken(tags, Value(request.body.name))

\* C18: createBookmark with an absent or empty title or url, and createTag
\* with an absent or empty name, answer InvalidInput and leave bookmarks,
\* tags, association rows and both id counters as they were.
C18_InvalidInputWritesNothing ==
    [][/\ (/\ Answered("createBookmark")
           /\ \/ request'.body.title \in {Absent, Some(<<>>)}
              \/ request'.body.url \in {Absent, Some(<<>>)})
          => response'.status = 400 /\ UNCHANGED store
       /\ (Answered("createTag") /\ request'.body.name \in {Absent, Some(<<>>)})
          => response'.status = 400 /\ UNCHANGED store
      ]_vars

\* a bookmark with an empty title and the id of a stored tag was refused
\* beside a stored bookmark
C18_Witness ==
    /\ request.op = "createBookmark"
    /\ request.body.title = Some(<<>>)
    /\ request.body.tagIds = Some(<<1>>)
    /\ response.status = 400
    /\ 1 \in DOMAIN tags
    /\ bookmarks # <<>>

\* the request names, by an integer, a row the table does not hold
NamesMissingRow(req, table) ==
    LET n == Number(req.param)
    IN  ~n.nan /\ n.int /\ n.val \notin DOMAIN table

\* C19: getBookmark, updateBookmark and deleteBookmark on an integer id no
\* stored bookmark has, and deleteTag on an integer id no stored tag has,
\* answer NotFound and leave bookmarks, tags and association rows as they
\* were, whatever the patch holds.
C19_MissingIdNotFound ==
    [][/\ \A op \in {"getBookmark", "updateBookmark", "deleteBookmark"} :
             (Answered(op) /\ NamesMissingRow(request', bookmarks))
             => response'.status = 404 /\ UNCHANGED store
       /\ (Answered("deleteTag") /\ NamesMissingRow(request', tags))
          => response'.status = 404 /\ UNCHANGED store
      ]_vars

\* a patch with a title, a description and the id of a stored tag was sent
\* to bookmark 2 while only bookmark 1 is stored
C19_Witness ==
    /\ request.op = "updateBookmark"
    /\ request.param = <<"2">>
    /\ request.body = Body(Some(<<"g">>), Absent, Some(<<"x">>), Absent, Some(<<1>>))
    /\ response.status = 404
    /\ DOMAIN bookmarks = {1}
    /\ 1 \in DOMAIN tags

\* the request's identifier is not the text of an integer
NamesNoInteger(req) ==
    LET n == Number(req.param) IN n.nan \/ ~n.int

\* C20: getBookmark, updateBookmark, deleteBookmark and deleteTag called
\* with an identifier that is not an integer (a non-numeric string, or a
\* numeric one with a fraction such as 1.5) answer InvalidInput, not
\* NotFound, and change no state.
C20_NonIntegerIdInvalidInput ==
    [][\A op \in {"getBookmark", "updateBookmark", "deleteBookmark", "deleteTag"} :
          (Answered(op) /\ NamesNoInteger(request'))
          => response'.status = 400 /\ UNCHANGED store
      ]_vars

\* C21: the stored tags change only in createTag and deleteTag steps; no
\* createBookmark, updateBookmark or deleteBookmark adds, removes or alters a
\* tag, and listTags answers with every stored tag, the ones no bookmark
\* carries included.
C21_TagsFrame ==
    [][/\ tags' # tags => (Answered("createTag") \/ Answered("deleteTag"))
       /\ \A op \in {"createBookmark", "updateBookmark", "deleteBookmark"} :
             Answered(op) => tags' = tags
       /\ Answered("listTags")
          => /\ response'.status = 200
             /\ Len(response'.data) = Cardinality(DOMAIN tags)
             /\ Range(response'.data) = {tags[t] : t \in DOMAIN tags}
      ]_vars

\* tag 1 is listed after the only bookmark ever stored is gone and no
\* association row is left
C21_Witness ==
    /\ request.op = "listTags"
    /\ \E i \in 1..Len(response.data) : response.data[i].id = 1
    /\ bookmark_seq = 1 /\ bookmarks = <<>>
    /\ bookmark_tags = {}

\* C22: an association row appears only in a createBookmark or an
\* updateBookmark that has tagIds, and disappears only in an updateBookmark
\* that has tagIds, a deleteTag or a deleteBookmark; listBookmarks,
\* getBookmark, listTags, createTag and an updateBookmark without tagIds
\* leave the association rows as they were.
C22_AssociationFrame ==
    [][/\ (bookmark_tags' \ bookmark_tags # {})
          => /\ Answered("createBookmark") \/ Answered("updateBookmark")
             /\ IsPresent(request'.body.tagIds)
       /\ (bookmark_tags \ bookmark_tags' # {})
          => \/ Answered("updateBookmark") /\ IsPresent(request'.body.tagIds)
             \/ Answered("deleteTag")
             \/ Answered("deleteBookmark")
       /\ \A op \in {"listBookmarks", "getBookmark", "listTags", "createTag"} :
             Answered(op) => bookmark_tags' = bookmark_tags
       /\ (Answered("updateBookmark") /\ ~IsPresent(request'.body.tagIds))
          => bookmark_tags' = bookmark_tags
      ]_vars

\* a patch of the description alone was stored on a bookmark that carries
\* tag 1
C22_Witness ==
    /\ request.op = "updateBookmark"
    /\ request.body = Body(Absent, Absent, Some(<<"G">>), Absent, Absent)
    /\ response.status = 200
    /\ TagsOf(bookmark_tags, IdOf(request)) = {1}

\* a sequence that names something twice
HasRepeats(seq) == \E i, j \in 1..Len(seq) : i # j /\ seq[i] = seq[j]

\* C23: a createBookmark or updateBookmark whose tagIds repeats the id of a
\* stored tag (and names stored tags only) succeeds; afterwards the bookmark
\* carries each named tag once, in the store and in the returned record, as
\* the same call without the repetitions would leave it, and the rows of the
\* other bookmarks are untouched.
C23_RepeatedTagIds ==
    [][\A op \in {"createBookmark", "updateBookmark"} :
          (/\ Answered(op)
           /\ IsPresent(request'.body.tagIds)
           /\ HasRepeats(Value(request'.body.tagIds))
           /\ Range(Value(request'.body.tagIds)) \subseteq DOMAIN tags
           /\ IF op = "createBookmark"
              THEN Truthy(request'.body.title) /\ Truthy(request'.body.url)
              ELSE HasRow(bookmarks, Number(request'.param)))
          => /\ response'.status = (IF op = "createBookmark" THEN 201 ELSE 200)
             /\ LET view == response'.data[1]
                    given == Range(Value(request'.body.tagIds))
                IN  /\ Len(view.tags) = Cardinality(given)
                    /\ TagIdsOf(view) = given
                    /\ bookmark_tags'
                         = {r \in bookmark_tags : r[1] # view.id}
                           \cup {<<view.id, t>> : t \in given}
      ]_vars

\* bookmark 1 was updated with tagIds = [1, 1] and carries tag 1 once
C23_Witness ==
    /\ request.op = "updateBookmark"
    /\ request.body.tagIds = Some(<<1, 1>>)
    /\ response.status = 200
    /\ Len(response.data[1].tags) = 1
    /\ bookmark_tags = {<<IdOf(request), 1>>}

\* C24: running the storage initialisation again on a store that holds
\* bookmarks, tags and association rows leaves the three relations exactly
\* as they were.
C24_InitIsIdempotent ==
    [][Answered("initDatabase") => UNCHANGED db]_vars

\* the server started again on a store with a bookmark, a tag and a row
C24_Witness ==
    /\ request.op = "initDatabase"
    /\ bookmarks # <<>>
    /\ tags # <<>>
    /\ bookmark_tags # {}

\* C26: bookmark ids and tag ids are never reused and never change: an id
\* given to a new row is larger than every id given before (the counters
\* bookmark_seq and tag_seq hold the largest id ever given and never fall),
\* deleted rows included, and a row that stays stored keeps its id.
C26_IdsNeverReused ==
    [][/\ \A i \in DOMAIN bookmarks' \ DOMAIN bookmarks : i > bookmark_seq
       /\ \A t \in DOMAIN tags' \ DOMAIN tags : t > tag_seq
       /\ bookmark_seq' >= bookmark_seq /\ tag_seq' >= tag_seq
       /\ \A i \in DOMAIN bookmarks' : i <= bookmark_seq' /\ bookmarks'[i].id = i
       /\ \A t \in DOMAIN tags' : t <= tag_seq' /\ tags'[t].id = t
      ]_vars

\* bookmark 2 was created after bookmark 1 had been deleted
C26_Witness ==
    /\ request.op = "createBookmark"
    /\ response.status = 201
    /\ DOMAIN bookmarks = {2}

\* what the PUT or DELETE handler, run in one piece on the relations s (a
\* value of db), leaves and answers
SerialOutcome(s, req) ==
    LET id == Number(req.param)
        same(answer) == [bookmarks |-> s[1], bookmark_tags |-> s[3], response |-> answer]
    IN  IF isNaN(id) THEN same(Failure(400))
        ELSE IF ~HasRow(s[1], id) THEN same(Failure(404))
        ELSE IF req.op = "deleteBookmark"
        THEN [bookmarks |-> DeleteRow(s[1], id.val),
              bookmark_tags |-> CascadeBookmark(s[3], id.val),
              response |-> Success(200, <<[id |-> id.val]>>)]
        ELSE LET old == s[1][id.val]
                 table == UpdateBookmarkRow(s[1], id.val,
                              Coalesce(req.body.title, old.title),
                              Coalesce(req.body.url, old.url),
                              Coalesce(req.body.description, old.description),
                              Coalesce(req.body.favicon, old.favicon))
                 ins == IF IsPresent(req.body.tagIds)
                        THEN InsertTagRows(CascadeBookmark(s[3], id.val), table,
                                           s[2], id.val, Value(req.body.tagIds))
                        ELSE [rows |-> s[3], ok |-> TRUE]
             IN  [bookmarks |-> table, bookmark_tags |-> ins.rows,
                  response |-> IF ins.ok
                               THEN Success(200, <<attachTags(table[id.val], s[2], ins.rows)>>)
                               ELSE Failure(500)]

\* the step in which handler h answers
Finishes(h) == h \in server.running /\ server'.running = server.running \ {h}

\* C25: however requests arrive, a handler that has started answers before
\* another one starts, so each request leaves and answers what its handler
\* run in one piece on the store it found would, the requests taken in the
\* order their handlers started; an updateBookmark beside a deleteBookmark
\* of the same id answers 200 on the stored bookmark or NotFound, and no
\* association row of a deleted bookmark is ever written.
C25_HandlersRunToCompletion ==
    [][/\ Cardinality(server'.running) <= 1
       /\ \A r \in bookmark_tags' : r[1] \in DOMAIN bookmarks'
       /\ \A h \in server.running :
             Finishes(h)
             => /\ <<bookmarks', bookmark_tags', response'>>
                     = LET out == SerialOutcome(h.before, h.req)
                       IN  <<out.bookmarks, out.bookmark_tags, out.response>>
                /\ (h.req.op = "updateBookmark" /\ h.req.param \in {<<"1">>, <<"2">>})
                   => \/ response'.status = 200 /\ IdOf(h.req) \in DOMAIN bookmarks'
                      \/ response'.status = 404 /\ IdOf(h.req) \notin DOMAIN bookmarks'
      ]_vars

\* the handler of an updateBookmark has run its UPDATE and not yet written
\* the tags while a deleteBookmark of the same id waits
C25_Witness ==
    \E h \in server.running :
        /\ h.req.op = "updateBookmark"
        /\ h.pc = "tags"
        /\ \E q \in server.queue :
              q.op = "deleteBookmark" /\ q.param = h.req.param

\* C27: useDebounce returns no intermediate value: whenever the value it
\* returns changes, it changes to the value of the last render, and that
\* value has been the input for at least the whole delay.
C27_NoIntermediateValue ==
    [][client'.debounced # client.debounced
       => /\ client'.debounced = client.value
          /\ now - client.since >= client.delay
      ]_vars

\* the hook returns "ab", its input since some time after the first render
\* and after a render before it whose timeout was cleared
C27_Witness ==
    /\ client.component = "useDebounce"
    /\ client.debounced = <<"a", "b">>
    /\ client.value = <<"a", "b">>
    /\ client.since > 0
    /\ ops >= 2
    /\ client.timers = {}

\* C28: in useBookmarks, once every request in flight has resolved, in
\* whatever order, the bookmarks state is the answer to the request made
\* for the filters of the last render, never the answer to an older one.
C28_LatestFiltersWin ==
    (client.component = "useBookmarks" /\ client.inflight = {})
    => client.bookmarks
         \in ListResults(bookmarks, tags, bookmark_tags, QueryFor(client.filters))

\* S with x taken out if it is in, put in if it is not
Toggle(S, x) == IF x \in S THEN S \ {x} ELSE S \cup {x}

\* C29: after two quick-tag clicks on different tags of one bookmark, the
\* second made before the answer to the first was applied or after, and once
\* both updateBookmark requests have completed, the bookmark's stored tags
\* are the original ones with both toggles applied.
C29_BothTogglesTakeEffect ==
    (/\ client.component = "BookmarkCard"
     /\ client.inflight = {}
     /\ Len(client.clicked) = 2
     /\ client.clicked[1] # client.clicked[2])
    => TagsOf(bookmark_tags, client.id)
         = Toggle(Toggle(client.original, client.clicked[1]), client.clicked[2])

\* C30: submitting BookmarkForm in edit mode stores exactly the selection
\* shown: once the update has been saved, the bookmark's tags are the tag
\* ids selected at the submit, the empty selection included.
C30_FormStoresSelection ==
    (client.component = "BookmarkForm" /\ client.saved)
    => TagsOf(bookmark_tags, client.id) = Range(client.submitted)

====
